---- MODULE Spec2Model ----
(***************************************************************************)
(* A model of georef: trajectory interpolation (src/src/imu_gnss.rs), the  *)
(* georeferencing loop and its configuration (src/src/georef.rs) and the   *)
(* rotation-order parser (src/src/rotation.rs).                            *)
(*                                                                         *)
(* Three specifications share the module; each one drives its own group   *)
(* of variables and leaves the other groups at their idle values:          *)
(*   SpecInterp  one call of ImuGnss::interpolate_trajectory, one loop     *)
(*               pass per step;                                            *)
(*   SpecGeoref  Georeferencer::new followed by Georeferencer::georeference*)
(*   SpecParse   RotationMatrix::from_str on one token.                    *)
(***************************************************************************)
EXTENDS Integers, Sequences, FiniteSets, TLC

VARIABLES
    \* ---- interpolate_trajectory (imu_gnss.rs:93-131)
    points,     \* self.points: the trajectory, a sequence of ImuGnssPoint
    time,       \* the query time
    hint0,      \* the hint the call was started with
    hint,       \* the local `mut hint`
    build,      \* "debug" | "release": decides what usize overflow does
    ipc,        \* "loop" while the call runs, "done" once it returned
    iresult,    \* what the call returned (or that it panicked)
    visited,    \* the bracket indices the search has read
    ups, downs, \* how many times the call did hint += 1 / hint -= 1
    calls,      \* how many calls the caller has made, this one included
    ordered,    \* whether the caller's query times never went down so far
    firstHint,  \* the hint of the caller's first call
    \* ---- Georeferencer::new and ::georeference (georef.rs:146-205)
    cfg,        \* the GeorefConfig handed to Georeferencer::new
    geo,        \* the result of Georeferencer::new
    srcAll,     \* every point the source holds, in order
    src,        \* the points the source has not handed out yet
    chunk,      \* the rest of the chunk the for loop is walking
    sinkOut,    \* the points written to the sink, in order
    npoints,    \* the local counter npoints
    gpc,        \* "new" | "pull" | "point" | "done" | "failed"
    gres,       \* the value georeference returned
    lastPull,   \* what the last source.source() call answered
    emptySeen,  \* whether some pull answered Some(empty chunk)
    \* ---- RotationMatrix::from_str (rotation.rs:91-106)
    tok,        \* the token being parsed, a sequence of characters
    parsed,     \* the parse result
    ppc,        \* "parse" | "done"
    \* ---- the calibration: Georeferencer::new and the sensor-to-body part of
    \* georeference_point (georef.rs:99-120, 146-162, 198-199)
    calConfig,  \* the GeorefConfig, angles in quarter turns
    calPoint,   \* the scanner point (x, y, z)
    calGeo,     \* the result of Georeferencer::new, matrices included
    calSocs,    \* self.socs_map.vec3(&point)
    calBody,    \* boresight_matrix * socs vector + lever_arm
    cpc         \* "new" | "point" | "done" | "failed"

ivars == <<points, time, hint0, hint, build, ipc, iresult, visited, ups, downs,
          calls, ordered, firstHint>>
gvars == <<cfg, geo, srcAll, src, chunk, sinkOut, npoints, gpc, gres, lastPull, emptySeen>>
pvars == <<tok, parsed, ppc>>
cvars == <<calConfig, calPoint, calGeo, calSocs, calBody, cpc>>
vars == <<ivars, gvars, pvars, cvars>>

\* ------------------------------------------------------------------ bounds
MaxLen == 3         \* longest trajectory
MaxTime == 3        \* largest sample time, in quanta
MantBits == 3       \* significand width of the reduced f64
FracBits == 2       \* 1.0 is 2^FracBits quanta
MaxPoints == 3      \* most points a source holds
MaxChunk == 2       \* largest configured chunk size
MaxLimit == 3       \* largest configured limit
MaxStreamLen == 4   \* longest trajectory of a query stream
MaxStreamTime == 4  \* largest sample time of a query stream, in quanta
MaxCalls == 3       \* most calls of one query stream

\* usize::MAX, what 0usize - 1 wraps to in a release build.  The program's
\* value is 2^64 - 1; the model keeps the largest value its integers hold,
\* which is likewise above every index and every hint below it.
UsizeMax == 2147483647

Min(a, b) == IF a < b THEN a ELSE b
Abs(n) == IF n < 0 THEN -n ELSE n
Sgn(n) == IF n < 0 THEN -1 ELSE 1

\* ------------------------------------------------- floating point (f64, f32)
\* A binary floating-point format of p significand bits with round to
\* nearest, ties to even, as IEEE 754 prescribes for f64 (p = 53) and f32
\* (p = 24); the model runs it at reduced width.  A finite value is an
\* integer number of quanta (one quantum is the smallest step of the format,
\* 1.0 is One quanta); NaN and the infinities are tagged.
One == 2 ^ FracBits
P64 == MantBits
P32 == MantBits - 1

Num(n) == [k |-> "num", v |-> n]
NaN == [k |-> "nan", v |-> 0]
Inf(s) == [k |-> "inf", v |-> s]

\* The spacing of the format at magnitude q (q a natural number of quanta).
RECURSIVE Ulp(_, _)
Ulp(p, q) == IF q < 2 ^ p THEN 1 ELSE 2 * Ulp(p, q \div 2)

\* The value of the format nearest to the rational n / d (d > 0), in quanta.
RoundRat(p, n, d) ==
    LET a == Abs(n)
        u == Ulp(p, a \div d)
        lo == (a \div (d * u)) * u
        rem == a - lo * d
        mag == IF 2 * rem < d * u THEN lo
               ELSE IF 2 * rem > d * u THEN lo + u
               ELSE IF (lo \div u) % 2 = 0 THEN lo ELSE lo + u
    IN Sgn(n) * mag

FAdd(p, a, b) ==
    IF a.k = "nan" \/ b.k = "nan" THEN NaN
    ELSE IF a.k = "inf" /\ b.k = "inf" THEN (IF a.v = b.v THEN a ELSE NaN)
    ELSE IF a.k = "inf" THEN a
    ELSE IF b.k = "inf" THEN b
    ELSE Num(RoundRat(p, a.v + b.v, 1))

FNeg(a) == IF a.k = "nan" THEN NaN ELSE [k |-> a.k, v |-> -a.v]

FSub(p, a, b) == FAdd(p, a, FNeg(b))

FMul(p, a, b) ==
    IF a.k = "nan" \/ b.k = "nan" THEN NaN
    ELSE IF a.k = "inf" \/ b.k = "inf"
         THEN (IF a.v = 0 \/ b.v = 0 THEN NaN ELSE Inf(Sgn(a.v) * Sgn(b.v)))
    ELSE Num(RoundRat(p, a.v * b.v, One))

FDiv(p, a, b) ==
    IF a.k = "nan" \/ b.k = "nan" THEN NaN
    ELSE IF a.k = "inf" THEN (IF b.k = "inf" THEN NaN ELSE Inf(a.v * Sgn(b.v)))
    ELSE IF b.k = "inf" THEN Num(0)
    ELSE IF b.v = 0 THEN (IF a.v = 0 THEN NaN ELSE Inf(Sgn(a.v)))
    ELSE Num(Sgn(b.v) * RoundRat(p, a.v * One, Abs(b.v)))

\* `factor as f32`: the f64 value rounded to the f32 format.
AsF32(a) == IF a.k = "num" THEN Num(RoundRat(P32, a.v, 1)) ELSE a

\* IEEE equality: NaN equals nothing, itself included.
FEq(a, b) == a.k # "nan" /\ b.k # "nan" /\ a = b

\* ------------------------------------------------ ImuGnss (imu_gnss.rs)
\* An ImuGnssPoint: seven fields, each a finite float given in quanta.
Point(t, row) ==
    [time |-> t, latitude |-> row.latitude, longitude |-> row.longitude,
     height |-> row.height, roll |-> row.roll, pitch |-> row.pitch,
     heading |-> row.heading]

\* The two attitude rows the trajectories of the model are built from: all of
\* their values are values of the reduced formats (f32 for height).
RowA == [latitude |-> 1, longitude |-> -1, height |-> 1,
         roll |-> -1, pitch |-> 2, heading |-> 3]
RowB == [latitude |-> 14, longitude |-> -12, height |-> 6,
         roll |-> 12, pitch |-> -14, heading |-> 14]

\* The trajectories: every sequence of sample times in 0..MaxTime of length
\* 0..MaxLen (ordered or not), the rows alternating from either row.
Trajectories ==
    UNION {{[i \in 1..n |-> Point(ts[i], IF (i + f) % 2 = 0 THEN RowA ELSE RowB)] :
                ts \in [1..n -> 0..MaxTime], f \in 0..1} : n \in 0..MaxLen}

QueryTimes == -1..(MaxTime + 1)
Hints == 0..(MaxLen - 1) \cup {UsizeMax}

\* imu_gnss.rs:98, `self.points.len() - 1` on usize: a debug build panics on
\* the overflow, a release build wraps.
LenMinusOne(len) == IF len = 0 THEN UsizeMax ELSE len - 1

\* Nonmonotonic with the comparison off by one quantum.
NonmonotonicSlack(first, second) == second.time + 1 < first.time

\* imu_gnss.rs:103
Nonmonotonic(first, second) == second.time < first.time

\* TimeBelow with the comparison off by one quantum.
TimeBelowSlack(t, first) == t + 1 < first.time

\* imu_gnss.rs:106
TimeBelow(t, first) == t < first.time

\* TimeAbove with >= for >.
TimeAboveOrEqual(t, second) == t >= second.time

\* imu_gnss.rs:113
TimeAbove(t, second) == t > second.time

\* imu_gnss.rs:117
Factor(first, second, t) ==
    FDiv(P64, FSub(P64, Num(t), Num(first.time)),
              FSub(P64, Num(second.time), Num(first.time)))

\* imu_gnss.rs:119-127, an f64 field: first + (second - first) * factor
Lerp64(a, b, factor) ==
    FAdd(P64, Num(a), FMul(P64, FSub(P64, Num(b), Num(a)), factor))

\* imu_gnss.rs:124, the f32 field:
\* first.height + (second.height - first.height) * factor as f32
Lerp32(a, b, factor) ==
    FAdd(P32, Num(a), FMul(P32, FSub(P32, Num(b), Num(a)), AsF32(factor)))

\* imu_gnss.rs:117-128
Interpolated(first, second, t) ==
    LET factor == Factor(first, second, t)
    IN [time |-> Lerp64(first.time, second.time, factor),
        longitude |-> Lerp64(first.longitude, second.longitude, factor),
        latitude |-> Lerp64(first.latitude, second.latitude, factor),
        height |-> Lerp32(first.height, second.height, factor),
        roll |-> Lerp64(first.roll, second.roll, factor),
        pitch |-> Lerp64(first.pitch, second.pitch, factor),
        heading |-> Lerp64(first.heading, second.heading, factor)]

\* hint -= 1 that leaves the hint where it is.
HintStays(h) == h

\* imu_gnss.rs:108, hint -= 1
HintDown(h) == h - 1

\* hint += 1 that skips a bracket.
HintUpTwo(h) == h + 2

\* imu_gnss.rs:114, hint += 1
HintUp(h) == h + 1

\* Whether one pass of the loop gets to read self.points[hint].
ReadsBracket(pts, h, bld) ==
    /\ ~(Len(pts) = 0 /\ bld = "debug")
    /\ h < LenMinusOne(Len(pts))
    /\ h + 1 < Len(pts)

\* One pass of the loop of interpolate_trajectory (imu_gnss.rs:97-130) with
\* the local hint at h (0-based, as in the code).
LoopBody(pts, t, h, bld) ==
    IF Len(pts) = 0 /\ bld = "debug"
    THEN [kind |-> "Panic"]                      \* subtract with overflow
    ELSE IF h >= LenMinusOne(Len(pts))
    THEN [kind |-> "OutsideOfImuGnssRecords"]
    ELSE IF h >= Len(pts) \/ h + 1 >= Len(pts)
    THEN [kind |-> "Panic"]                      \* index out of bounds
    ELSE LET first == pts[h + 1]
             second == pts[h + 2]
         IN IF Nonmonotonic(first, second)
            THEN [kind |-> "NonmonotonicImuGnssRecords"]
            ELSE IF TimeBelow(t, first)
            THEN (IF h > 0 THEN [kind |-> "continue", dir |-> "down", hint |-> HintDown(h)]
                  ELSE [kind |-> "OutsideOfImuGnssRecords"])
            ELSE IF TimeAbove(t, second)
            THEN [kind |-> "continue", dir |-> "up", hint |-> HintUp(h)]
            ELSE [kind |-> "Ok", sample |-> Interpolated(first, second, t),
                  hint |-> h]

NoResult == [kind |-> "none"]

InterpIdle ==
    /\ points = <<>> /\ time = 0 /\ hint0 = 0 /\ hint = 0 /\ build = "debug"
    /\ ipc = "idle" /\ iresult = NoResult /\ visited = {} /\ ups = 0 /\ downs = 0
    /\ calls = 0 /\ ordered = TRUE /\ firstHint = 0

InterpInit ==
    /\ points \in Trajectories
    /\ time \in QueryTimes
    /\ hint0 \in Hints
    /\ hint = hint0
    /\ build \in {"debug", "release"}
    /\ ipc = "loop"
    /\ iresult = NoResult
    /\ visited = {}
    /\ ups = 0
    /\ downs = 0
    /\ calls = 1
    /\ ordered = TRUE
    /\ firstHint = hint0

\* The time-ordered streams: strictly increasing trajectories of 2 to
\* MaxStreamLen samples with times in 0..MaxStreamTime, searched from hint 0.
StreamTrajectories ==
    UNION {{[i \in 1..n |-> Point(ts[i], IF (i + f) % 2 = 0 THEN RowA ELSE RowB)] :
                ts \in {u \in [1..n -> 0..MaxStreamTime] :
                            \A i \in 1..(n - 1) : u[i] < u[i + 1]},
                f \in 0..1} : n \in 2..MaxStreamLen}
StreamQueryTimes == -1..(MaxStreamTime + 1)

StreamInit ==
    /\ points \in StreamTrajectories
    /\ time \in StreamQueryTimes
    /\ hint0 = 0
    /\ hint = hint0
    /\ build \in {"debug", "release"}
    /\ ipc = "loop"
    /\ iresult = NoResult
    /\ visited = {}
    /\ ups = 0
    /\ downs = 0
    /\ calls = 1
    /\ ordered = TRUE
    /\ firstHint = hint0

\* The caller's next call (imu_gnss.rs:82-96): the hint returned with the
\* last sample is handed back in with the next query time.
NextCall ==
    /\ ipc = "done"
    /\ iresult.kind = "Ok"
    /\ calls < MaxCalls
    /\ \E t \in StreamQueryTimes :
          /\ time' = t
          /\ ordered' = (ordered /\ t >= time)
    /\ hint0' = iresult.hint
    /\ hint' = iresult.hint
    /\ ipc' = "loop"
    /\ iresult' = NoResult
    /\ visited' = {}
    /\ ups' = 0
    /\ downs' = 0
    /\ calls' = calls + 1
    /\ UNCHANGED <<points, build, firstHint>>
    /\ UNCHANGED <<gvars, pvars, cvars>>

\* One pass of the loop: it returns, or it moves the hint and goes round.
InterpIter ==
    /\ ipc = "loop"
    /\ LET r == LoopBody(points, time, hint, build)
       IN /\ visited' = IF ReadsBracket(points, hint, build)
                        THEN visited \cup {hint} ELSE visited
          /\ IF r.kind = "continue"
             THEN /\ hint' = r.hint
                  /\ ups' = IF r.dir = "up" THEN ups + 1 ELSE ups
                  /\ downs' = IF r.dir = "down" THEN downs + 1 ELSE downs
                  /\ UNCHANGED <<ipc, iresult>>
             ELSE /\ ipc' = "done"
                  /\ iresult' = r
                  /\ UNCHANGED <<hint, ups, downs>>
    /\ UNCHANGED <<points, time, hint0, build, calls, ordered, firstHint>>
    /\ UNCHANGED <<gvars, pvars, cvars>>

\* ---------------------------------------------- rotation.rs: the parser
\* A &str is a sequence of one-character strings.
RECURSIVE SplitAcc(_, _, _)
SplitAcc(s, c, cur) ==
    IF s = <<>> THEN <<cur>>
    ELSE IF Head(s) = c THEN <<cur>> \o SplitAcc(Tail(s), c, <<>>)
    ELSE SplitAcc(Tail(s), c, Append(cur, Head(s)))

\* str::split(c), collected: the pieces of s between the occurrences of c.
Split(s, c) == SplitAcc(s, c, <<>>)

\* str::starts_with / str::ends_with for a one-character pattern.
StartsWith(s, c) == Len(s) > 0 /\ s[1] = c
EndsWith(s, c) == Len(s) > 0 /\ s[Len(s)] = c

\* str::trim_left_matches / str::trim_right_matches: every leading
\* (trailing) occurrence of c is removed.
RECURSIVE TrimLeftMatches(_, _)
TrimLeftMatches(s, c) ==
    IF StartsWith(s, c) THEN TrimLeftMatches(Tail(s), c) ELSE s
RECURSIVE TrimRightMatches(_, _)
TrimRightMatches(s, c) ==
    IF EndsWith(s, c) THEN TrimRightMatches(SubSeq(s, 1, Len(s) - 1), c) ELSE s

ParseRotate(s) == [ok |-> FALSE, err |-> "ParseRotate", arg |-> s]

\* rotation.rs:108-118, RotationMatrixType::from_str
ParseType(s) ==
    IF s \in {<<"r", "1">>, <<"R", "1">>, <<"1">>} THEN [ok |-> TRUE, val |-> "R1"]
    ELSE IF s \in {<<"r", "2">>, <<"R", "2">>, <<"2">>} THEN [ok |-> TRUE, val |-> "R2"]
    ELSE IF s \in {<<"r", "3">>, <<"R", "3">>, <<"3">>} THEN [ok |-> TRUE, val |-> "R3"]
    ELSE ParseRotate(s)

\* rotation.rs:120-130, RotationMatrixAngle::from_str
ParseAngle(s) ==
    IF s = <<"r", "o", "l", "l">> THEN [ok |-> TRUE, val |-> "Roll"]
    ELSE IF s = <<"p", "i", "t", "c", "h">> THEN [ok |-> TRUE, val |-> "Pitch"]
    ELSE IF s = <<"y", "a", "w">> THEN [ok |-> TRUE, val |-> "Yaw"]
    ELSE ParseRotate(s)

\* from_str that takes the sign in front of the axis as well.
FromStrLeadingSign(s) ==
    LET v == Split(s, "(")
    IN IF Len(v) # 2 \/ ~EndsWith(v[2], ")")
       THEN ParseRotate(s)
       ELSE LET negative == StartsWith(v[2], "-") \/ StartsWith(v[1], "-")
                angle_name == TrimRightMatches(TrimLeftMatches(v[2], "-"), ")")
                type_ == ParseType(TrimLeftMatches(v[1], "-"))
                angle == ParseAngle(angle_name)
            IN IF ~type_.ok THEN type_
               ELSE IF ~angle.ok THEN angle
               ELSE [ok |-> TRUE, type_ |-> type_.val, negative |-> negative,
                     angle |-> angle.val]

\* from_str that never records the sign.
FromStrUnsigned(s) ==
    LET v == Split(s, "(")
    IN IF Len(v) # 2 \/ ~EndsWith(v[2], ")")
       THEN ParseRotate(s)
       ELSE LET angle_name == TrimRightMatches(TrimLeftMatches(v[2], "-"), ")")
                type_ == ParseType(v[1])
                angle == ParseAngle(angle_name)
            IN IF ~type_.ok THEN type_
               ELSE IF ~angle.ok THEN angle
               ELSE [ok |-> TRUE, type_ |-> type_.val, negative |-> FALSE,
                     angle |-> angle.val]

\* rotation.rs:91-106, RotationMatrix::from_str
FromStr(s) ==
    LET v == Split(s, "(")
    IN IF Len(v) # 2 \/ ~EndsWith(v[2], ")")
       THEN ParseRotate(s)
       ELSE LET negative == StartsWith(v[2], "-")
                angle_name == TrimRightMatches(TrimLeftMatches(v[2], "-"), ")")
                type_ == ParseType(v[1])
                angle == ParseAngle(angle_name)
            IN IF ~type_.ok THEN type_
               ELSE IF ~angle.ok THEN angle
               ELSE [ok |-> TRUE, type_ |-> type_.val, negative |-> negative,
                     angle |-> angle.val]

\* rotation.rs:18-24, RotationOrder::new
RotationOrderNew(first, second, third) ==
    LET a == FromStr(first)
        b == FromStr(second)
        c == FromStr(third)
    IN IF ~a.ok THEN a
       ELSE IF ~b.ok THEN b
       ELSE IF ~c.ok THEN c
       ELSE [ok |-> TRUE, first |-> a, second |-> b, third |-> c]

\* The tokens the parser is run on: an optional sign, an axis, an opening
\* bracket, an optional sign, an angle name and a closing bracket.
LeadParts == {<<>>, <<"-">>}
AxisParts == {<<"r", "1">>, <<"r", "2">>, <<"r", "3">>, <<"R", "1">>, <<"1">>,
              <<"r", "4">>, <<"r">>}
OpenParts == {<<"(">>, <<"[">>, <<"(", "(">>}
SignParts == {<<>>, <<"-">>, <<"-", "-">>}
AngleParts == {<<"r", "o", "l", "l">>, <<"p", "i", "t", "c", "h">>, <<"y", "a", "w">>,
               <<"r", "o", "l", "l", "z">>, <<"r", "o", "l">>}
CloseParts == {<<")">>, <<>>, <<")", ")">>, <<"]">>}
Token(lead, axis, open, sign, angle, close) ==
    lead \o axis \o open \o sign \o angle \o close
Tokens ==
    {Token(l, a, o, g, n, c) : l \in LeadParts, a \in AxisParts, o \in OpenParts,
                               g \in SignParts, n \in AngleParts, c \in CloseParts}

ParseIdle == tok = <<>> /\ parsed = NoResult /\ ppc = "idle"

ParseInit == tok \in Tokens /\ parsed = NoResult /\ ppc = "parse"

\* s.parse::<RotationMatrix>()
Parse ==
    /\ ppc = "parse"
    /\ parsed' = FromStr(tok)
    /\ ppc' = "done"
    /\ UNCHANGED tok
    /\ UNCHANGED <<ivars, gvars, cvars>>

\* ------------------------------------------------ georef.rs: configuration
\* georef.rs:16
DEFAULT_CHUNK_SIZE == 1000

\* Option<usize>: None is the empty sequence, Some(n) the sequence <<n>>.
None == <<>>
Some(n) == <<n>>

\* Vec3::x(), Vec3::y(), Vec3::z() and their negations (georef.rs:105-110)
Vec3X == <<1, 0, 0>>
Vec3Y == <<0, 1, 0>>
Vec3Z == <<0, 0, 1>>
VNeg(v) == <<-v[1], -v[2], -v[3]>>

\* Rot3::new_identity(3): a matrix is a triple of rows.
Identity3 == <<Vec3X, Vec3Y, Vec3Z>>

\* Col::set_col(i, v), i counted from 0
SetCol(m, i, v) ==
    [r \in 1..3 |-> [c \in 1..3 |-> IF c = i + 1 THEN v[r] ELSE m[r][c]]]

\* rotation.rs:65-71, RotationMatrixType::vec3
TypeVec3(type_) ==
    IF type_ = "R1" THEN Vec3X ELSE IF type_ = "R2" THEN Vec3Y ELSE Vec3Z

\* ------------------------------------------ nalgebra: Vec3, Mat3, Rot3
\* Angles are counted in quarter turns, so that sines and cosines, and with
\* them every matrix, are integers.
Cos4(q) == CASE q % 4 = 0 -> 1 [] q % 4 = 2 -> -1 [] OTHER -> 0
Sin4(q) == CASE q % 4 = 1 -> 1 [] q % 4 = 3 -> -1 [] OTHER -> 0

Dot(a, b) == a[1] * b[1] + a[2] * b[2] + a[3] * b[3]
VAdd(a, b) == <<a[1] + b[1], a[2] + b[2], a[3] + b[3]>>
VScale(v, k) == <<v[1] * k, v[2] * k, v[3] * k>>
Column(m, c) == <<m[1][c], m[2][c], m[3][c]>>
\* Rot3 * Vec3: the matrix applied to a column vector
MatVec(m, v) == <<Dot(m[1], v), Dot(m[2], v), Dot(m[3], v)>>
\* Vec3 * Rot3: the row vector times the matrix
VecMat(v, m) == <<Dot(v, Column(m, 1)), Dot(v, Column(m, 2)), Dot(v, Column(m, 3))>>
\* Rot3 * Rot3
MatMul(a, b) ==
    [r \in 1..3 |-> [c \in 1..3 |-> Dot(a[r], Column(b, c))]]

\* Rot3::new(axisangle): the rotation about the direction of the vector by
\* its length (Rodrigues' formula); the zero vector gives the identity. The
\* vectors of the program lie along one coordinate axis.
Rot3New(v) ==
    LET theta == Abs(v[1]) + Abs(v[2]) + Abs(v[3])
    IN IF theta = 0 THEN Identity3
       ELSE LET k == <<v[1] \div theta, v[2] \div theta, v[3] \div theta>>
                K == <<<<0, -k[3], k[2]>>, <<k[3], 0, -k[1]>>, <<-k[2], k[1], 0>>>>
                c == Cos4(theta)
                s == Sin4(theta)
            IN [i \in 1..3 |-> [j \in 1..3 |->
                   c * Identity3[i][j] + s * K[i][j] + (1 - c) * k[i] * k[j]]]

\* georef.rs:74-78, Rpy
Rpy(r, p, y) == [roll |-> r, pitch |-> p, yaw |-> y]

\* rotation.rs:82-88, RotationMatrixAngle::select
Select(angle, r, p, y) ==
    IF angle = "Roll" THEN r ELSE IF angle = "Pitch" THEN p ELSE y

\* rotation.rs:46-55, RotationMatrix::rot3
RotationMatrixRot3(rm, roll, pitch, yaw) ==
    LET factor == IF rm.negative THEN -1 ELSE 1
    IN Rot3New(VScale(TypeVec3(rm.type_), factor * Select(rm.angle, roll, pitch, yaw)))

\* rot3 that multiplies the three rotations in the opposite order.
RotationOrderRot3Reversed(ro, roll, pitch, yaw) ==
    MatMul(MatMul(RotationMatrixRot3(ro.third, roll, pitch, yaw),
                  RotationMatrixRot3(ro.second, roll, pitch, yaw)),
           RotationMatrixRot3(ro.first, roll, pitch, yaw))

\* rotation.rs:27-30, RotationOrder::rot3
RotationOrderRot3(ro, roll, pitch, yaw) ==
    MatMul(MatMul(RotationMatrixRot3(ro.first, roll, pitch, yaw),
                  RotationMatrixRot3(ro.second, roll, pitch, yaw)),
           RotationMatrixRot3(ro.third, roll, pitch, yaw))

\* georef.rs:117-119, SocsMap::vec3
SocsMapVec3(rotation_matrix, point) == VecMat(point, rotation_matrix)

\* SocsAxis with a catch-all arm that maps every other token onto x.
SocsAxisLenient(s) ==
    IF s = "-x" THEN [ok |-> TRUE, val |-> VNeg(Vec3X)]
    ELSE IF s = "y" THEN [ok |-> TRUE, val |-> Vec3Y]
    ELSE IF s = "-y" THEN [ok |-> TRUE, val |-> VNeg(Vec3Y)]
    ELSE IF s = "z" THEN [ok |-> TRUE, val |-> Vec3Z]
    ELSE IF s = "-z" THEN [ok |-> TRUE, val |-> VNeg(Vec3Z)]
    ELSE [ok |-> TRUE, val |-> Vec3X]

\* georef.rs:104-112, the match on one token of the map
SocsAxis(s) ==
    IF s = "x" THEN [ok |-> TRUE, val |-> Vec3X]
    ELSE IF s = "-x" THEN [ok |-> TRUE, val |-> VNeg(Vec3X)]
    ELSE IF s = "y" THEN [ok |-> TRUE, val |-> Vec3Y]
    ELSE IF s = "-y" THEN [ok |-> TRUE, val |-> VNeg(Vec3Y)]
    ELSE IF s = "z" THEN [ok |-> TRUE, val |-> Vec3Z]
    ELSE IF s = "-z" THEN [ok |-> TRUE, val |-> VNeg(Vec3Z)]
    ELSE [ok |-> FALSE, err |-> "SocsMap", arg |-> s]

\* georef.rs:100-115, SocsMap::new: the columns are set in the order x, y, z
\* and the first token that is no axis ends it.
SocsMapNew(map) ==
    LET ax == SocsAxis(map.x)
        ay == SocsAxis(map.y)
        az == SocsAxis(map.z)
    IN IF ~ax.ok THEN ax
       ELSE IF ~ay.ok THEN ay
       ELSE IF ~az.ok THEN az
       ELSE [ok |-> TRUE,
             rotation_matrix |->
                 SetCol(SetCol(SetCol(Identity3, 0, ax.val), 1, ay.val), 2, az.val)]

\* georef.rs:146-162, Georeferencer::new: the rotation order is parsed first,
\* the SOCS map after it; either error ends the construction.
GeoreferencerNew(config) ==
    LET ro == RotationOrderNew(config.rotation_order[1], config.rotation_order[2],
                               config.rotation_order[3])
    IN IF ~ro.ok THEN ro
       ELSE LET sm == SocsMapNew(config.socs_map)
            IN IF ~sm.ok THEN sm
               ELSE [ok |-> TRUE,
                     boresight_matrix |->
                         RotationOrderRot3(ro, config.boresight.roll,
                                           config.boresight.pitch, config.boresight.yaw),
                     lever_arm |-> config.lever_arm,
                     chunk_size |-> IF config.chunk_size = None
                                    THEN DEFAULT_CHUNK_SIZE ELSE config.chunk_size[1],
                     limit |-> config.limit,
                     rotation_order |-> ro,
                     socs_map |-> sm.rotation_matrix]

\* The configurations of the model.
TokR3Yaw == Token(<<>>, <<"r", "3">>, <<"(">>, <<>>, <<"y", "a", "w">>, <<")">>)
TokR2Pitch == Token(<<>>, <<"r", "2">>, <<"(">>, <<>>, <<"p", "i", "t", "c", "h">>, <<")">>)
TokR1Roll == Token(<<>>, <<"r", "1">>, <<"(">>, <<>>, <<"r", "o", "l", "l">>, <<")">>)
TokR4Roll == Token(<<>>, <<"r", "4">>, <<"(">>, <<>>, <<"r", "o", "l", "l">>, <<")">>)
TokR1Rol == Token(<<>>, <<"r", "1">>, <<"(">>, <<>>, <<"r", "o", "l">>, <<")">>)
RotationOrders ==
    {<<TokR3Yaw, TokR2Pitch, TokR1Roll>>,
     <<TokR4Roll, TokR2Pitch, TokR1Roll>>,
     <<TokR3Yaw, TokR2Pitch, TokR1Rol>>}
SocsStringMap(x, y, z) == [x |-> x, y |-> y, z |-> z]
SocsMaps ==
    {SocsStringMap("x", "y", "z"), SocsStringMap("y", "z", "x"),
     SocsStringMap("-x", "-y", "-z"), SocsStringMap("q", "y", "z"),
     SocsStringMap("x", "X", "z"), SocsStringMap("x", "y", "")}
Configs ==
    [rotation_order : RotationOrders, socs_map : SocsMaps,
     boresight : {Rpy(0, 0, 0)}, lever_arm : {<<0, 0, 0>>},
     chunk_size : {None} \cup {Some(n) : n \in 0..MaxChunk},
     limit : {None} \cup {Some(n) : n \in 0..MaxLimit}]

\* -------------------------------------------------- georef.rs: the run
\* A source point: whether it carries a gps_time and whether the interpolator
\* finds a position for its time; x, y, z are not georeferenced yet.
SourcePoint(i, gps, pos) == [id |-> i, gps_time |-> gps, pos |-> pos, georeferenced |-> FALSE]
PointKinds == {<<TRUE, TRUE>>, <<FALSE, TRUE>>, <<TRUE, FALSE>>}
Sources ==
    UNION {{[i \in 1..n |-> SourcePoint(i, ks[i][1], ks[i][2])] :
                ks \in [1..n -> PointKinds]} : n \in 0..MaxPoints}

\* georeference_point that lets a point without gps_time or position through.
GeoreferencePointSkipping(point) ==
    [ok |-> TRUE, point |-> [point EXCEPT !.georeferenced = TRUE]]

\* georef.rs:191-205, georeference_point: the point needs a gps_time, then a
\* position from the interpolator; x, y and z are overwritten.
GeoreferencePoint(point) ==
    IF ~point.gps_time THEN [ok |-> FALSE, err |-> "MissingGpsTime"]
    ELSE IF ~point.pos THEN [ok |-> FALSE, err |-> "Pos"]
    ELSE [ok |-> TRUE, point |-> [point EXCEPT !.georeferenced = TRUE]]

\* georef.rs:180-184
LimitReached(limit, n) == limit # None /\ n >= limit[1]

Err(e) == [kind |-> "Err", err |-> e]
Ok == [kind |-> "Ok"]

GeorefIdle ==
    /\ cfg = NoResult /\ geo = NoResult /\ srcAll = <<>> /\ src = <<>> /\ chunk = <<>>
    /\ sinkOut = <<>> /\ npoints = 0 /\ gpc = "idle" /\ gres = NoResult
    /\ lastPull = "none" /\ emptySeen = FALSE

GeorefInit ==
    /\ cfg \in Configs
    /\ geo = NoResult
    /\ srcAll \in Sources
    /\ src = srcAll
    /\ chunk = <<>>
    /\ sinkOut = <<>>
    /\ npoints = 0
    /\ gpc = "new"
    /\ gres = NoResult
    /\ lastPull = "none"
    /\ emptySeen = FALSE

\* Georeferencer::new(config): without a Georeferencer nothing can run.
New ==
    /\ gpc = "new"
    /\ geo' = GeoreferencerNew(cfg)
    /\ gpc' = IF geo'.ok THEN "pull" ELSE "failed"
    /\ UNCHANGED <<cfg, srcAll, src, chunk, sinkOut, npoints, gres, lastPull, emptySeen>>
    /\ UNCHANGED <<ivars, pvars, cvars>>

\* georef.rs:172-175, source.source(self.chunk_size) fails: try! returns it.
PullErr ==
    /\ gpc = "pull"
    /\ lastPull' = "err"
    /\ gpc' = "done"
    /\ gres' = Err("PabstSource")
    /\ UNCHANGED <<cfg, geo, srcAll, src, chunk, sinkOut, npoints, emptySeen>>
    /\ UNCHANGED <<ivars, pvars, cvars>>

\* PullNone without the break: the loop goes round on None.
PullNoneContinue ==
    /\ gpc = "pull"
    /\ src = <<>>
    /\ lastPull' = "absent"
    /\ UNCHANGED <<cfg, geo, srcAll, src, chunk, sinkOut, npoints, emptySeen, gpc, gres>>
    /\ UNCHANGED <<ivars, pvars, cvars>>

\* georef.rs:174, the source has no more points and answers None: break.
PullNone ==
    /\ gpc = "pull"
    /\ src = <<>>
    /\ lastPull' = "absent"
    /\ gpc' = "done"
    /\ gres' = Ok
    /\ UNCHANGED <<cfg, geo, srcAll, src, chunk, sinkOut, npoints, emptySeen>>
    /\ UNCHANGED <<ivars, pvars, cvars>>

\* georef.rs:173, the source answers Some(points) with at most chunk_size of
\* its next points, possibly none: the for loop walks them, and a chunk
\* without points takes the loop straight back to the next pull.
PullSome ==
    /\ gpc = "pull"
    /\ \E k \in 0..Min(geo.chunk_size, Len(src)) :
          /\ chunk' = SubSeq(src, 1, k)
          /\ src' = SubSeq(src, k + 1, Len(src))
          /\ lastPull' = IF k = 0 THEN "empty" ELSE "points"
          /\ emptySeen' = (emptySeen \/ k = 0)
          /\ gpc' = IF k = 0 THEN "pull" ELSE "point"
    /\ UNCHANGED <<cfg, geo, srcAll, sinkOut, npoints, gres>>
    /\ UNCHANGED <<ivars, pvars, cvars>>

\* georef.rs:176-185, one pass of the for loop on the next point of the
\* chunk; sinkOk is whether sink.sink(&point) succeeds.
GeorefPoint ==
    /\ gpc = "point"
    /\ LET r == GeoreferencePoint(Head(chunk))
       IN IF ~r.ok
          THEN /\ gpc' = "done"
               /\ gres' = Err(r.err)
               /\ UNCHANGED <<chunk, sinkOut, npoints>>
          ELSE \E sinkOk \in BOOLEAN :
                 IF ~sinkOk
                 THEN /\ gpc' = "done"
                      /\ gres' = Err("PabstSink")
                      /\ UNCHANGED <<chunk, sinkOut, npoints>>
                 ELSE /\ sinkOut' = Append(sinkOut, r.point)
                      /\ npoints' = npoints + 1
                      /\ IF LimitReached(geo.limit, npoints')
                         THEN /\ gpc' = "done"
                              /\ gres' = Ok
                              /\ UNCHANGED chunk
                         ELSE /\ chunk' = Tail(chunk)
                              /\ gpc' = IF chunk' = <<>> THEN "pull" ELSE "point"
                              /\ UNCHANGED gres
    /\ UNCHANGED <<cfg, geo, srcAll, src, lastPull, emptySeen>>
    /\ UNCHANGED <<ivars, pvars, cvars>>

\* ------------------------------------------------------- specifications
CalibIdle ==
    /\ calConfig = NoResult /\ calPoint = <<>> /\ calGeo = NoResult
    /\ calSocs = <<>> /\ calBody = <<>> /\ cpc = "idle"

InitInterp == InterpInit /\ GeorefIdle /\ ParseIdle /\ CalibIdle
NextInterp == InterpIter
SpecInterp == InitInterp /\ [][NextInterp]_vars

InitStream == StreamInit /\ GeorefIdle /\ ParseIdle /\ CalibIdle
NextStream == InterpIter \/ NextCall
SpecStream == InitStream /\ [][NextStream]_vars

InitGeoref == GeorefInit /\ InterpIdle /\ ParseIdle /\ CalibIdle
NextGeoref == New \/ PullErr \/ PullNone \/ PullSome \/ GeorefPoint
SpecGeoref == InitGeoref /\ [][NextGeoref]_vars

InitParse == ParseInit /\ InterpIdle /\ GeorefIdle /\ CalibIdle
NextParse == Parse
SpecParse == InitParse /\ [][NextParse]_vars

\* ------------------------------------------- claims: interpolate_trajectory
Returned == ipc = "done"
NonDecreasing ==
    \A i \in 1..(Len(points) - 1) : points[i].time <= points[i + 1].time
StrictlyIncreasing ==
    \A i \in 1..(Len(points) - 1) : points[i].time < points[i + 1].time
ValidHint0 == hint0 < Len(points) - 1
FirstTime == points[1].time
LastTime == points[Len(points)].time

\* Field by field, the interpolated sample equals the trajectory point.
SameSample(sample, point) ==
    /\ FEq(sample.time, Num(point.time))
    /\ FEq(sample.latitude, Num(point.latitude))
    /\ FEq(sample.longitude, Num(point.longitude))
    /\ FEq(sample.height, Num(point.height))
    /\ FEq(sample.roll, Num(point.roll))
    /\ FEq(sample.pitch, Num(point.pitch))
    /\ FEq(sample.heading, Num(point.heading))

\* C1: on a trajectory of length >= 2 with non-decreasing times and a valid
\* starting hint, a query at the first or at the last sample time returns
\* Ok, and a query below the first or above the last sample time returns
\* OutsideOfImuGnssRecords.
ThmC1 ==
    (Returned /\ Len(points) >= 2 /\ NonDecreasing /\ ValidHint0) =>
        /\ (time = FirstTime \/ time = LastTime) => iresult.kind = "Ok"
        /\ (time < FirstTime \/ time > LastTime) =>
               iresult.kind = "OutsideOfImuGnssRecords"

\* A call from hint 0 that walked up a three-sample trajectory to answer a
\* query at the last sample time.
WitC1 ==
    /\ Returned /\ Len(points) = 3 /\ NonDecreasing /\ hint0 = 0
    /\ FirstTime < LastTime /\ time = LastTime
    /\ ups > 0 /\ iresult.kind = "Ok"

\* C2: whenever the call returns Ok, the returned hint h is a bracket index,
\* 0 <= h < length - 1, and the query time lies in that bracket:
\* points[h].time <= time <= points[h + 1].time (0-based).
ThmC2 ==
    (Returned /\ iresult.kind = "Ok") =>
        /\ 0 <= iresult.hint
        /\ iresult.hint < Len(points) - 1
        /\ points[iresult.hint + 1].time <= time
        /\ time <= points[iresult.hint + 2].time

\* A successful call that returned another hint than the one it got.
WitC2 ==
    /\ Returned /\ iresult.kind = "Ok" /\ iresult.hint # hint0
    /\ points[iresult.hint + 1].time < time
    /\ time < points[iresult.hint + 2].time

\* C3: on a strictly increasing trajectory and from every valid hint, a query
\* at the time of sample i returns Ok with a sample equal to points[i] in
\* every field.
CexC3 ==
    (Returned /\ Len(points) >= 2 /\ StrictlyIncreasing /\ ValidHint0) =>
        \A i \in 1..Len(points) :
            time = points[i].time =>
                /\ iresult.kind = "Ok"
                /\ SameSample(iresult.sample, points[i])

\* C4: when points[k + 1].time < points[k].time, a call whose search reads
\* bracket k returns NonmonotonicImuGnssRecords, and so no sample.
ThmC4 ==
    \A k \in visited :
        (k + 2 <= Len(points) /\ points[k + 2].time < points[k + 1].time) =>
            /\ Returned
            /\ iresult.kind = "NonmonotonicImuGnssRecords"

\* A call that walked from its starting hint to an out-of-order bracket.
WitC4 ==
    /\ Returned /\ iresult.kind = "NonmonotonicImuGnssRecords"
    /\ ups + downs > 0
    /\ hint # hint0 /\ hint \in visited
    /\ points[hint + 2].time < points[hint + 1].time

\* C5: on a trajectory of fewer than two samples every call returns
\* OutsideOfImuGnssRecords: it neither panics nor returns a sample.
CexC5 ==
    (Returned /\ Len(points) < 2) => iresult.kind = "OutsideOfImuGnssRecords"

\* --------------------------------------------------- claims: georeference
Finished == gpc = "done"
Running == gpc \in {"pull", "point", "done"}
Georeferenced(point) == [point EXCEPT !.georeferenced = TRUE]

\* C6: with a limit L configured and a run that returns Ok, the sink holds
\* exactly min(L, n) points, n the number of points of the source.
CexC6 ==
    (Finished /\ gres = Ok /\ geo.limit # None) =>
        Len(sinkOut) = Min(geo.limit[1], Len(srcAll))

\* C7: without a limit the sink holds, in source order and once each, the
\* georeferenced source points that precede the first failing point: all of
\* them when the run returns Ok, and those before the point without gps_time,
\* without a position or whose write failed when the run returns that error;
\* no failing point is ever in the sink.
ThmC7 ==
    (Running /\ geo.limit = None) =>
        /\ Len(sinkOut) = npoints
        /\ Len(sinkOut) <= Len(srcAll)
        /\ \A i \in 1..Len(sinkOut) :
              /\ sinkOut[i] = Georeferenced(srcAll[i])
              /\ srcAll[i].gps_time
              /\ srcAll[i].pos
        /\ (Finished /\ gres = Ok) => Len(sinkOut) = Len(srcAll)
        /\ gres = Err("MissingGpsTime") =>
              /\ Len(sinkOut) < Len(srcAll)
              /\ ~srcAll[Len(sinkOut) + 1].gps_time
        /\ gres = Err("Pos") =>
              /\ Len(sinkOut) < Len(srcAll)
              /\ srcAll[Len(sinkOut) + 1].gps_time
              /\ ~srcAll[Len(sinkOut) + 1].pos
        /\ gres = Err("PabstSink") =>
              /\ Len(sinkOut) < Len(srcAll)
              /\ GeoreferencePoint(srcAll[Len(sinkOut) + 1]).ok
        /\ (Finished /\ gres # Ok) =>
              Len(srcAll) - Len(src) - Len(chunk) = Len(sinkOut)

\* A run without limit that wrote two points and then met a point without
\* gps_time, with a further point behind it.
WitC7 ==
    /\ Finished /\ geo.limit = None /\ gres = Err("MissingGpsTime")
    /\ Len(sinkOut) = 2 /\ Len(srcAll) = 3

NothingRan ==
    /\ gpc = "failed" /\ ~geo.ok
    /\ src = srcAll /\ chunk = <<>> /\ sinkOut = <<>> /\ npoints = 0
    /\ lastPull = "none" /\ gres = NoResult

SocsTokens == {"x", "-x", "y", "-y", "z", "-z"}
SocsInvalid(map) ==
    map.x \notin SocsTokens \/ map.y \notin SocsTokens \/ map.z \notin SocsTokens
RotationOrderParses(order) ==
    FromStr(order[1]).ok /\ FromStr(order[2]).ok /\ FromStr(order[3]).ok

\* C9 as stated: a SOCS token outside {x,-x,y,-y,z,-z} makes
\* Georeferencer::new fail with Error::SocsMap, and nothing runs.
CexC9 ==
    (gpc # "new" /\ SocsInvalid(cfg.socs_map)) =>
        /\ NothingRan
        /\ geo.err = "SocsMap"

\* C9 amended: a SOCS token outside {x,-x,y,-y,z,-z} makes Georeferencer::new
\* fail and nothing runs; the error is Error::SocsMap when the rotation order
\* parses and Error::ParseRotate when it does not.
ThmC9 ==
    (gpc # "new" /\ SocsInvalid(cfg.socs_map)) =>
        /\ NothingRan
        /\ geo.err = IF RotationOrderParses(cfg.rotation_order)
                     THEN "SocsMap" ELSE "ParseRotate"

\* A configuration whose third SOCS token is no axis, over a source that
\* holds points: new has failed with Error::SocsMap naming that token.
WitC9 ==
    /\ gpc = "failed" /\ cfg.socs_map.z = "" /\ srcAll # <<>>
    /\ geo = [ok |-> FALSE, err |-> "SocsMap", arg |-> ""]

\* ------------------------------------------------------ claims: from_str
Parsed == ppc = "done"

NumberedAxes == {<<"r", "1">>, <<"r", "2">>, <<"r", "3">>}
AngleNames == {<<"r", "o", "l", "l">>, <<"p", "i", "t", "c", "h">>, <<"y", "a", "w">>}
\* The tokens "-rN(angle)": a sign before the axis.
LeadingSignTokens ==
    {Token(<<"-">>, a, <<"(">>, <<>>, n, <<")">>) : a \in NumberedAxes, n \in AngleNames}
TokMinusR1Roll ==
    Token(<<"-">>, <<"r", "1">>, <<"(">>, <<>>, <<"r", "o", "l", "l">>, <<")">>)

\* The axis and the angle a token "-rN(angle)" names.
TypeOfDigit(d) == IF d = "1" THEN "R1" ELSE IF d = "2" THEN "R2" ELSE "R3"
AngleOfName(n) ==
    IF n = <<"r", "o", "l", "l">> THEN "Roll"
    ELSE IF n = <<"y", "a", "w">> THEN "Yaw" ELSE "Pitch"

R3YawParses ==
    tok = TokR3Yaw =>
        /\ parsed = [ok |-> TRUE, type_ |-> "R3", negative |-> FALSE, angle |-> "Yaw"]
        /\ TypeVec3(parsed.type_) = Vec3Z

AcceptedAxes == {<<"r", "1">>, <<"r", "2">>, <<"r", "3">>, <<"R", "1">>, <<"1">>}
OptionalSign == {<<>>, <<"-">>}
\* An axis followed by exactly one parenthesized group holding an angle
\* name, with at most one sign before the name.
WellFormedTokens ==
    {Token(<<>>, a, <<"(">>, g, n, <<")">>) :
        a \in AcceptedAxes, g \in OptionalSign, n \in AngleNames}
TokR1RollExtraClose ==
    Token(<<>>, <<"r", "1">>, <<"(">>, <<>>, <<"r", "o", "l", "l">>, <<")", ")">>)
FailsWithParseRotate(r) == ~r.ok /\ r.err = "ParseRotate"

\* C11 as stated: every token that is not an accepted axis followed by
\* exactly one parenthesized group holding roll, pitch or yaw (with at most
\* one sign) fails to parse with Error::ParseRotate.
CexC11 ==
    (Parsed /\ tok \notin WellFormedTokens) => FailsWithParseRotate(parsed)

\* ---------------------------------------------- claims: signed tokens
\* The tokens axis(angle) and axis(-angle) with axis r1, r2 or r3.
SignedTokens ==
    {Token(<<>>, a, <<"(">>, g, n, <<")">>) :
        a \in NumberedAxes, g \in OptionalSign, n \in AngleNames}
TokR1MinusRoll ==
    Token(<<>>, <<"r", "1">>, <<"(">>, <<"-">>, <<"r", "o", "l", "l">>, <<")">>)
\* The text between the parentheses of a token "rN(...)", sign removed.
NameInParens(s) ==
    SubSeq(s, IF s[4] = "-" THEN 5 ELSE 4, Len(s) - 1)

\* C12: a token rN(angle) or rN(-angle), N in 1..3 and angle one of roll,
\* pitch, yaw, parses successfully; the parsed rotation is negative exactly
\* when a "-" stands directly before the angle name inside the parentheses,
\* and its axis and angle selector are the ones the token names.
ThmC12 ==
    (Parsed /\ tok \in SignedTokens) =>
        /\ parsed.ok
        /\ parsed.type_ = TypeOfDigit(tok[2])
        /\ parsed.negative = (tok[4] = "-")
        /\ parsed.angle = AngleOfName(NameInParens(tok))

\* "r1(-roll)" was parsed into a negative rotation about axis 1 by roll.
WitC12 ==
    /\ Parsed
    /\ tok = TokR1MinusRoll
    /\ parsed = [ok |-> TRUE, type_ |-> "R1", negative |-> TRUE, angle |-> "Roll"]

\* ------------------------------------------------ georef.rs: calibration
QuarterTurns == 0..3
ScannerPoints == {<<1, 2, 3>>, <<-2, 0, 5>>, <<0, 0, 0>>}
LeverArms == {<<0, 0, 0>>, <<1, -2, 3>>}
DefaultRotationOrder == <<TokR3Yaw, TokR2Pitch, TokR1Roll>>
\* Every map over the six axis names and one name that is no axis.
AllSocsMaps ==
    {SocsStringMap(x, y, z) : x \in SocsTokens \cup {"q"}, y \in SocsTokens \cup {"q"},
                              z \in SocsTokens \cup {"q"}}
\* The configurations that vary the SOCS map.
SocsConfigs ==
    [rotation_order : {DefaultRotationOrder}, socs_map : AllSocsMaps,
     boresight : {Rpy(0, 0, 0), Rpy(1, 0, 0), Rpy(0, 1, 2)}, lever_arm : LeverArms,
     chunk_size : {None}, limit : {None}]
\* The tokens of the rotation orders: each axis with its own angle, both
\* signs, and with another angle.
RotationToken(axis, sign, angle) == Token(<<>>, axis, <<"(">>, sign, angle, <<")">>)
RotationTokens ==
    {TokR1Roll, TokR2Pitch, TokR3Yaw,
     RotationToken(<<"r", "1">>, <<"-">>, <<"r", "o", "l", "l">>),
     RotationToken(<<"r", "2">>, <<"-">>, <<"p", "i", "t", "c", "h">>),
     RotationToken(<<"r", "3">>, <<"-">>, <<"y", "a", "w">>),
     RotationToken(<<"r", "1">>, <<>>, <<"y", "a", "w">>),
     RotationToken(<<"r", "2">>, <<>>, <<"r", "o", "l", "l">>),
     RotationToken(<<"r", "3">>, <<"-">>, <<"p", "i", "t", "c", "h">>)}
\* The configurations that vary the rotation order and the boresight angles.
RotationConfigs ==
    [rotation_order : {<<a, b, c>> : a \in RotationTokens, b \in RotationTokens,
                                     c \in RotationTokens},
     socs_map : {SocsStringMap("x", "y", "z")},
     boresight : {Rpy(r, p, y) : r \in QuarterTurns, p \in QuarterTurns,
                                 y \in QuarterTurns},
     lever_arm : {<<0, 0, 0>>}, chunk_size : {None}, limit : {None}]

CalibInit(configs, pts) ==
    /\ calConfig \in configs
    /\ calPoint \in pts
    /\ calGeo = NoResult /\ calSocs = <<>> /\ calBody = <<>> /\ cpc = "new"

\* georef.rs:146-162, Georeferencer::new
NewCalibration ==
    /\ cpc = "new"
    /\ calGeo' = GeoreferencerNew(calConfig)
    /\ cpc' = IF calGeo'.ok THEN "point" ELSE "failed"
    /\ UNCHANGED <<calConfig, calPoint, calSocs, calBody>>
    /\ UNCHANGED <<ivars, gvars, pvars>>

\* georef.rs:198-199, the sensor-to-body part of georeference_point:
\* self.boresight_matrix * self.socs_map.vec3(&point) + self.lever_arm
CalibratePoint ==
    /\ cpc = "point"
    /\ calSocs' = SocsMapVec3(calGeo.socs_map, calPoint)
    /\ calBody' = VAdd(MatVec(calGeo.boresight_matrix, calSocs'), calGeo.lever_arm)
    /\ cpc' = "done"
    /\ UNCHANGED <<calConfig, calPoint, calGeo>>
    /\ UNCHANGED <<ivars, gvars, pvars>>

InitSocs == CalibInit(SocsConfigs, ScannerPoints) /\ InterpIdle /\ GeorefIdle /\ ParseIdle
NextSocs == NewCalibration \/ CalibratePoint
SpecSocs == InitSocs /\ [][NextSocs]_vars

InitRot3 == CalibInit(RotationConfigs, {<<1, 2, 3>>}) /\ InterpIdle /\ GeorefIdle /\ ParseIdle
NextRot3 == NewCalibration \/ CalibratePoint
SpecRot3 == InitRot3 /\ [][NextRot3]_vars

\* ------------------------------------------------- claims: the SOCS map
Calibrated == cpc = "done"
\* px * axis(tx) + py * axis(ty) + pz * axis(tz)
Remapped(map, p) ==
    VAdd(VAdd(VScale(SocsAxis(map.x).val, p[1]), VScale(SocsAxis(map.y).val, p[2])),
         VScale(SocsAxis(map.z).val, p[3]))

\* Each row and each column holds exactly one entry that is not zero, and
\* that entry is 1 or -1.
NonZeros(v) == Cardinality({i \in 1..3 : v[i] # 0})
IsSignedPermutation(m) ==
    /\ \A r \in 1..3 : NonZeros(m[r]) = 1 /\ NonZeros(Column(m, r)) = 1
    /\ \A r \in 1..3 : \A c \in 1..3 : m[r][c] \in {-1, 0, 1}

\* C13 as stated: for every valid SOCS map (three axis names that make a
\* signed permutation) and point p the remapped vector is socsMap * p taken
\* as a matrix on a column vector, that is
\* px * axis(tx) + py * axis(ty) + pz * axis(tz), and the calibrated point is
\* boresight * (that vector) + leverArm.
CexC13 ==
    (Calibrated /\ IsSignedPermutation(calGeo.socs_map)) =>
        /\ calSocs = Remapped(calConfig.socs_map, calPoint)
        /\ calSocs = MatVec(calGeo.socs_map, calPoint)
        /\ calBody = VAdd(MatVec(calGeo.boresight_matrix,
                                  Remapped(calConfig.socs_map, calPoint)),
                           calGeo.lever_arm)

\* C19 as stated: every SOCS map that SocsMap::new and Georeferencer::new
\* accept yields a signed-permutation matrix.
CexC19 ==
    (cpc \in {"point", "done"}) => IsSignedPermutation(calGeo.socs_map)

\* --------------------------------------------- claims: the rotation order
\* The elementary rotations about the axes 1, 2 and 3 by q quarter turns.
Elementary(d, q) ==
    LET c == Cos4(q)
        s == Sin4(q)
    IN IF d = "1" THEN <<<<1, 0, 0>>, <<0, c, -s>>, <<0, s, c>>>>
       ELSE IF d = "2" THEN <<<<c, 0, s>>, <<0, 1, 0>>, <<-s, 0, c>>>>
       ELSE <<<<c, -s, 0>>, <<s, c, 0>>, <<0, 0, 1>>>>
\* The angle a token rN(angle) or rN(-angle) selects, with its sign.
SignedAngle(t, rpy) ==
    LET n == NameInParens(t)
        a == IF n = <<"r", "o", "l", "l">> THEN rpy.roll
             ELSE IF n = <<"y", "a", "w">> THEN rpy.yaw ELSE rpy.pitch
    IN IF t[4] = "-" THEN -a ELSE a
\* E1 * E2 * E3 for the three tokens of an order
ElementaryProduct(order, rpy) ==
    MatMul(MatMul(Elementary(order[1][2], SignedAngle(order[1], rpy)),
                  Elementary(order[2][2], SignedAngle(order[2], rpy))),
           Elementary(order[3][2], SignedAngle(order[3], rpy)))
QuarterEach == Rpy(1, 1, 1)
Swapped(order) == <<order[2], order[1], order[3]>>

\* C14: the matrix RotationOrder::rot3 returns is E1 * E2 * E3 in the order
\* of the configuration, Ek being the elementary rotation about the axis of
\* the k-th token by its sign times the angle it selects (angles being
\* multiples of 90 degrees); and the order matters: with all three angles at
\* 90 degrees, exchanging the first two tokens gives another matrix whenever
\* they turn about different axes.
ThmC14 ==
    (cpc \in {"point", "done"}) =>
        /\ calGeo.boresight_matrix =
               ElementaryProduct(calConfig.rotation_order, calConfig.boresight)
        /\ (/\ calConfig.boresight = QuarterEach
            /\ calConfig.rotation_order[1][2] # calConfig.rotation_order[2][2]) =>
               calGeo.boresight_matrix #
                   ElementaryProduct(Swapped(calConfig.rotation_order), QuarterEach)

\* The order r3(yaw), r2(-pitch), r1(roll) with yaw and pitch at 90 degrees
\* was turned into a matrix, and it is not the one of r2(-pitch), r3(yaw),
\* r1(roll).
WitC14 ==
    /\ cpc = "done"
    /\ calConfig.rotation_order =
           <<TokR3Yaw, RotationToken(<<"r", "2">>, <<"-">>, <<"p", "i", "t", "c", "h">>),
             TokR1Roll>>
    /\ calConfig.boresight = QuarterEach
    /\ calGeo.boresight_matrix = <<<<0, 0, 1>>, <<0, -1, 0>>, <<1, 0, 0>>>>

\* ---------------------------------------------- claims: the query stream
InRange == Len(points) >= 2 /\ FirstTime <= time /\ time <= LastTime
\* A call of a time-ordered stream of in-range queries that began at hint 0
\* on a strictly increasing trajectory has returned.
StreamCallReturned ==
    /\ Returned
    /\ Len(points) >= 2 /\ StrictlyIncreasing
    /\ firstHint = 0 /\ ordered
    /\ InRange
\* The query lies no further ahead than the bracket after the one the hint
\* names.
WithinNextBracket ==
    hint0 + 3 > Len(points) \/ time <= points[hint0 + 3].time

\* C15 as stated: every call of such a stream changes the bracket index by
\* at most one step.
CexC15 ==
    StreamCallReturned => ups + downs <= 1

\* C15 amended: every call of such a stream succeeds, never moves the
\* bracket index down, and moves it up once per bracket between the hint it
\* was given and the bracket it returns; that is at most one step when the
\* query lies no further ahead than the bracket after the given hint.
ThmC15 ==
    StreamCallReturned =>
        /\ iresult.kind = "Ok"
        /\ downs = 0
        /\ ups = iresult.hint - hint0
        /\ WithinNextBracket => ups <= 1

\* A later call of the stream moved the bracket index one step up.
WitC15 ==
    StreamCallReturned /\ calls >= 2 /\ hint0 >= 1 /\ ups = 1 /\ iresult.kind = "Ok"

\* ------------------------------------------ claims: independence of hint
\* interpolate_trajectory(t, h) run to its return: the loop body repeated,
\* at most n more times.
RECURSIVE InterpolateFrom(_, _, _, _, _)
InterpolateFrom(pts, t, h, bld, n) ==
    LET r == LoopBody(pts, t, h, bld)
    IN IF r.kind = "continue" /\ n > 0
       THEN InterpolateFrom(pts, t, r.hint, bld, n - 1)
       ELSE r
InterpolateTrajectory(pts, t, h, bld) == InterpolateFrom(pts, t, h, bld, Len(pts))

\* The fields of two samples are equal one by one.
SameFields(a, b) ==
    /\ FEq(a.time, b.time)
    /\ FEq(a.latitude, b.latitude)
    /\ FEq(a.longitude, b.longitude)
    /\ FEq(a.height, b.height)
    /\ FEq(a.roll, b.roll)
    /\ FEq(a.pitch, b.pitch)
    /\ FEq(a.heading, b.heading)
\* Two calls end alike: both Ok with equal samples, or both the same error.
SameOutcome(a, b) ==
    IF a.kind = "Ok" THEN b.kind = "Ok" /\ SameFields(a.sample, b.sample)
    ELSE b.kind = a.kind

\* C16 as stated: on a strictly increasing trajectory of length >= 2 the
\* outcome of a call does not depend on the valid hint it starts from.
CexC16 ==
    (Returned /\ Len(points) >= 2 /\ StrictlyIncreasing /\ ValidHint0) =>
        \A h \in 0..(Len(points) - 2) :
            SameOutcome(iresult, InterpolateTrajectory(points, time, h, build))

\* ------------------------------------------- claims: degenerate brackets
\* The call returned a sample from a bracket whose two points carry the
\* same time, the query being that time.
DegenerateBracket ==
    /\ Returned /\ iresult.kind = "Ok"
    /\ points[iresult.hint + 1].time = points[iresult.hint + 2].time
    /\ time = points[iresult.hint + 1].time

\* C18 as stated: when the accepted bracket has points[i].time equal to
\* points[i+1].time and the query equals that time, the returned sample
\* equals points[i] in every field (no division by zero, no NaN).
CexC18 ==
    DegenerateBracket => SameSample(iresult.sample, points[iresult.hint + 1])

\* ------------------------------------------------- claims: termination
NoReversal == ~(ups > 0 /\ downs > 0)
\* A pass of the loop returns or moves the bracket index.
PassReturnsOrMoves ==
    ipc = "loop" => (ipc' = "done" \/ ups' + downs' = ups + downs + 1)

====
